---- MODULE Spec2Model ----
(***************************************************************************)
(* A model of three parts of the hyperfy repository:                       *)
(*   - WebSocketManager (hypersdk/src/client/App.js, lines 277-475): the   *)
(*     reconnecting transport with its outbound queue;                     *)
(*   - ErrorMonitor (src/core/systems/ErrorMonitor.js): the error buffer;  *)
(*   - Blueprints (src/core/systems/Blueprints.js): the blueprint registry *)
(*     and its error-correlation window.                                   *)
(* Each part has its own specification (Spec, SpecEM, SpecBP); the         *)
(* variables of the other parts stay at their initial values.              *)
(***************************************************************************)
EXTENDS Integers, Sequences, FiniteSets, TLC

(***************************************************************************)
(* Bounds of the model.                                                    *)
(***************************************************************************)
\* sockets created over a run (new WebSocket(url) calls)
MaxSockets == 3
\* messages submitted to send() over a run
MaxMsgs == 2
\* transmits that raise over a run
MaxDrops == 1
\* options.maxReconnectAttempts (App.js:285; the default is 5)
maxReconnectAttempts == 2

\* this.maxErrors: the capacity of the error buffer (ErrorMonitor.js:17 sets 500;
\* the model runs the same code with a small capacity)
maxErrors == 2
\* captureError calls between two clearErrors calls
MaxErrorId == 3
\* advances of the clock over a run
MaxTicks == 2
\* add and modify calls over a run
MaxCalls == 2
\* highest blueprint version a payload carries
MaxVersion == 1
\* frames given to handleMessage over a run
MaxFrames == 3
\* isCriticalError calls in a run
MaxClassified == 3
\* console calls in a run
MaxConsoleCalls == 3
\* the highest rank a record or a patch gives a player
MaxRank == 3
MaxArrivals == 4        \* the messages a chat is given
MaxLimit == 3           \* the largest limit given to setMaxMessages

\* options.reconnectDelay || 1000
reconnectDelay == 1000
\* cleanup() drops records older than 24 hours; getStats() counts the last hour
DayHours == 24
HourHours == 1
\* the clock advances a day at a time
TickHours == DayHours

VARIABLES
  \* ---- WebSocketManager fields (App.js:278-291)
  ws,                 \* this.ws: index of the current socket, 0 for null
  connected,          \* this.connected
  reconnectAttempts,  \* this.reconnectAttempts
  heartbeatTimer,     \* this.heartbeatTimer is set (an interval is running)
  queue,              \* this.queue: sequence of message ids
  processingQueue,    \* this.processingQueue
  \* ---- the sockets ever created and what is scheduled
  sock,               \* readyState of every socket created so far
  promise,            \* who awaits the connect() promise of a socket while it is pending
  timers,             \* pending reconnect timers (setTimeout), each with its delay
  pc,                 \* "idle", or "flush" while an open handler runs processQueue's loop
  opening,            \* the socket whose open handler is running, 0 if none
  \* ---- observation of a run
  wire,               \* message ids handed to ws.send, in order
  dropped,            \* message ids whose transmit raised
  nextMsg,            \* messages submitted so far
  schedLog,           \* delays of the reconnects scheduled since the last open
  maxReached,         \* 'maxReconnectAttemptsReached' emissions since the last open
  failedReconnects,   \* reconnect attempts that ended in the callback's catch since the last open
  userDisconnected,   \* disconnect() was called and the caller has not called connect() since
  sendErrors,         \* 'error' events emitted by send()
  sendTrue,           \* send() calls that returned true
  noopConnect         \* connect() was called with this.ws OPEN, and no socket was created,
                      \* closed or disconnected since

wsVars == <<ws, connected, reconnectAttempts, heartbeatTimer, queue, processingQueue,
            sock, promise, timers, pc, opening,
            wire, dropped, nextMsg, schedLog, maxReached, failedReconnects,
            userDisconnected, sendErrors, sendTrue, noopConnect>>

VARIABLES
  \* ---- ErrorMonitor fields (ErrorMonitor.js:12-21)
  errors,             \* this.errors: sequence of records [id, ts, type, msg]
  errorId,            \* this.errorId
  now,                \* the clock (Date.now()), in hours
  isClient,           \* this.isClient: the monitor runs on the client (with world.network)
  lastCleared,        \* what the last clearErrors() call returned
  lastCalled,         \* the method of the monitor that was called last
  lastOut,            \* the last captureError call: its args, the events the listeners
                      \* received, the 'errorReport' messages sent, whether it raised
  \* ---- observation of a run
  streak,             \* captureError calls in a row since one found the buffer empty
  streakFirst         \* the id given by the first call of that streak

emVars == <<errors, errorId, now, isClient, lastCleared, lastCalled, lastOut, streak, streakFirst>>

VARIABLES
  \* ---- Blueprints (Blueprints.js:12-15) and the world around it
  items,              \* this.items: blueprint id -> record [id, version, name]
  entities,           \* world.entities.items: entity -> [blueprint, state, builds]
  hasMonitor,         \* world.errorMonitor is present
  inflight,           \* executeWithErrorMonitoring calls waiting for their timeout, oldest first
  netSent,            \* world.network.send calls so far
  lastSent,           \* what the last of them was given
  modifyEvents,       \* 'modify' events emitted so far
  \* ---- observation of a run
  calls,              \* add and modify calls so far
  lastCall            \* the last add or modify call and what it did

bpVars == <<items, entities, hasMonitor, inflight, netSent, lastSent, modifyEvents,
            calls, lastCall>>

VARIABLES
  \* ---- the client's entity store (HyperfyClient)
  clientEntities,     \* this.entities: entity id -> the object built for it
  \* ---- observation of a run
  removed,            \* ids removed and not carried by an entityAdded or snapshot since
  lastEvent           \* the last event applied to the store

stVars == <<clientEntities, removed, lastEvent>>

VARIABLES
  \* ---- frames arriving at handleMessage
  received,           \* the frames given to handleMessage, in arrival order
  emitted,            \* the events the manager emitted for them, in order
  raised              \* handleMessage raised to the socket's 'message' callback

msgVars == <<received, emitted, raised>>

VARIABLES
  \* ---- calls on an object outside of any system
  classified,         \* the isCriticalError calls made: type, text and the result
  \* ---- the console interception of the ErrorMonitor
  debugMode,          \* this.debugMode
  logIntercepted,     \* console.log has been replaced by the capturing wrapper
  consoleCalls,       \* console.error, console.warn and console.log calls so far
  lastConsole,        \* the last of them: its method and whether it was captured
  \* ---- one Entity object of the client
  ent,                \* its fields position, quaternion, scale, state and name
  lastOp,             \* the constructor or the last method called on it, with its arguments
  \* ---- one Player object of the client
  player,             \* its fields health and rank
  lastPlayerOp        \* the constructor or the last update call, with its argument

conVars == <<debugMode, logIntercepted, consoleCalls, lastConsole>>
entVars == <<ent, lastOp>>
plVars == <<player, lastPlayerOp>>

VARIABLES
  \* ---- the wire codec
  pkIn,               \* the name and payload last given to writePacket
  pkFrame,            \* the frame it produced
  pkOut,              \* what readPacket last returned
  \* ---- one Chat object of the client
  chat,               \* its fields messages and maxMessages
  arrivals,           \* how many messages addMessage has been given so far
  lastChatOp,         \* the last method called on it, its argument and whether it raised
  \* ---- one App object of the client and the client's blueprint registry
  app,                \* its fields blueprintId, blueprint, pinned, mover and uploader
  clientBlueprints,   \* client.blueprints: blueprint id -> the registered blueprint object
  lastAppOp           \* the constructor or the last update call, with its argument

pkVars == <<pkIn, pkFrame, pkOut>>
chatVars == <<chat, arrivals, lastChatOp>>
appVars == <<app, clientBlueprints, lastAppOp>>
sdkVars == <<pkVars, chatVars, appVars>>
objVars == <<classified, conVars, entVars, plVars, sdkVars>>

VARIABLES
  socketLimit         \* the sockets a run may create: where the exploration stops

vars == <<wsVars, emVars, bpVars, stVars, msgVars, objVars, socketLimit>>

\* what an action of one part leaves alone: the variables of the other parts
notWS == <<emVars, bpVars, stVars, msgVars, objVars, socketLimit>>
notEM == <<wsVars, bpVars, stVars, msgVars, objVars, socketLimit>>
notStore == <<wsVars, emVars, bpVars, msgVars, objVars, socketLimit>>
notMsg == <<wsVars, emVars, bpVars, stVars, objVars, socketLimit>>
notObj == <<wsVars, emVars, bpVars, stVars, msgVars, socketLimit>>
notEM_Obj == <<wsVars, bpVars, stVars, msgVars, socketLimit>>

Sockets == 1..(MaxSockets + 1)

RECURSIVE Pow2(_)
Pow2(n) == IF n = 0 THEN 1 ELSE 2 * Pow2(n - 1)

SeqToSet(s) == {s[i] : i \in 1..Len(s)}

RemoveAt(s, k) == SubSeq(s, 1, k - 1) \o SubSeq(s, k + 1, Len(s))

NumSockets == Cardinality({i \in Sockets : sock[i] # "NONE"})

(***************************************************************************)
(* WebSocketManager                                                        *)
(***************************************************************************)
InitWS ==
  /\ ws = 0
  /\ connected = FALSE
  /\ reconnectAttempts = 0
  /\ heartbeatTimer = FALSE
  /\ queue = <<>>
  /\ processingQueue = FALSE
  /\ sock = [i \in Sockets |-> "NONE"]
  /\ promise = [i \in Sockets |-> "none"]
  /\ timers = <<>>
  /\ pc = "idle"
  /\ opening = 0
  /\ wire = <<>>
  /\ dropped = {}
  /\ nextMsg = 0
  /\ schedLog = <<>>
  /\ maxReached = 0
  /\ failedReconnects = 0
  /\ userDisconnected = FALSE
  /\ sendErrors = 0
  /\ sendTrue = 0
  /\ noopConnect = FALSE

\* the test of send(): this.connected && this.ws && this.ws.readyState === OPEN
CanSend(c, w, s) == c /\ w # 0 /\ s[w] = "OPEN"

\* send(packetName, data) on message m with queue q: queue it, transmit it, or
\* (the transmit raising) drop it; `error` says it emits 'error', `returns` is
\* what it returns
SendEffectRequeue(m, q, can, throws) ==
  IF ~can \/ throws
  THEN [queue |-> Append(q, m), wire |-> wire, dropped |-> dropped,
        error |-> can, returns |-> FALSE]
  ELSE [queue |-> q, wire |-> Append(wire, m), dropped |-> dropped,
        error |-> FALSE, returns |-> TRUE]
SendEffect(m, q, can, throws) ==
  IF ~can THEN [queue |-> Append(q, m), wire |-> wire, dropped |-> dropped,
                error |-> FALSE, returns |-> FALSE]
  ELSE IF throws THEN [queue |-> q, wire |-> wire, dropped |-> dropped \cup {m},
                       error |-> TRUE, returns |-> FALSE]
  ELSE [queue |-> q, wire |-> Append(wire, m), dropped |-> dropped,
        error |-> FALSE, returns |-> TRUE]

Throws == {t \in BOOLEAN : t => Cardinality(dropped) < MaxDrops}

shouldReconnect(attempts) == attempts < maxReconnectAttempts

ReconnectDelay(attempts) == reconnectDelay * Pow2(attempts)

\* connect(): nothing when this.ws is OPEN, else a new socket whose promise is
\* awaited by `who`
ConnectEffectAlways(who) ==
  /\ NumSockets < socketLimit
  /\ ws' = NumSockets + 1
  /\ sock' = [sock EXCEPT ![NumSockets + 1] = "CONNECTING"]
  /\ promise' = [promise EXCEPT ![NumSockets + 1] = who]
ConnectEffect(who) ==
  IF ws # 0 /\ sock[ws] = "OPEN"
  THEN UNCHANGED <<ws, sock, promise>>
  ELSE /\ NumSockets < socketLimit
       /\ ws' = NumSockets + 1
       /\ sock' = [sock EXCEPT ![NumSockets + 1] = "CONNECTING"]
       /\ promise' = [promise EXCEPT ![NumSockets + 1] = who]

Connect ==
  /\ pc = "idle"
  /\ ConnectEffect("caller")
  /\ userDisconnected' = FALSE
  /\ UNCHANGED <<connected, reconnectAttempts, heartbeatTimer, queue, processingQueue,
                 timers, pc, opening, wire, dropped, nextMsg, schedLog, maxReached,
                 failedReconnects>>
  /\ UNCHANGED <<sendErrors, sendTrue>>
  /\ noopConnect' = (ws # 0 /\ sock[ws] = "OPEN")
  /\ UNCHANGED notWS

Disconnect ==
  /\ pc = "idle"
  /\ sock' = IF ws # 0 /\ sock[ws] \in {"CONNECTING", "OPEN"}
             THEN [sock EXCEPT ![ws] = "CLOSING"]
             ELSE sock
  /\ ws' = 0
  /\ connected' = FALSE
  /\ heartbeatTimer' = FALSE
  /\ userDisconnected' = TRUE
  /\ UNCHANGED <<reconnectAttempts, queue, processingQueue, promise, timers, pc, opening,
                 wire, dropped, nextMsg, schedLog, maxReached,
                 failedReconnects>>
  /\ UNCHANGED <<sendErrors, sendTrue>>
  /\ noopConnect' = FALSE
  /\ UNCHANGED notWS

\* a send() by the caller, or by the heartbeat interval (send('ping', ...))
SendMsg(throws) ==
  /\ pc = "idle"
  /\ nextMsg < MaxMsgs
  /\ nextMsg' = nextMsg + 1
  /\ LET r == SendEffect(nextMsg + 1, queue, CanSend(connected, ws, sock), throws)
     IN /\ queue' = r.queue
        /\ wire' = r.wire
        /\ dropped' = r.dropped
        /\ sendErrors' = IF r.error THEN sendErrors + 1 ELSE sendErrors
        /\ sendTrue' = IF r.returns THEN sendTrue + 1 ELSE sendTrue
  /\ UNCHANGED <<ws, connected, reconnectAttempts, heartbeatTimer, processingQueue,
                 sock, promise, timers, pc, opening, schedLog, maxReached,
                 failedReconnects, userDisconnected>>
  /\ UNCHANGED noopConnect
  /\ UNCHANGED notWS

Send == \E throws \in Throws : SendMsg(throws)

Heartbeat == heartbeatTimer /\ \E throws \in Throws : SendMsg(throws)

\* queue.shift(): the item taken and what is left
ShiftLast(q) == [item |-> q[Len(q)], rest |-> SubSeq(q, 1, Len(q) - 1)]
Shift(q) == [item |-> Head(q), rest |-> Tail(q)]

\* the 'open' handler of socket i up to the start of processQueue's loop
SocketOpen(i) ==
  /\ pc = "idle"
  /\ sock[i] = "CONNECTING"
  /\ sock' = [sock EXCEPT ![i] = "OPEN"]
  /\ connected' = TRUE
  /\ reconnectAttempts' = 0
  /\ heartbeatTimer' = TRUE
  /\ schedLog' = <<>>
  /\ maxReached' = 0
  /\ failedReconnects' = 0
  /\ IF processingQueue \/ queue = <<>>
     THEN /\ promise' = [promise EXCEPT ![i] = "none"]
          /\ UNCHANGED <<processingQueue, pc, opening>>
     ELSE /\ processingQueue' = TRUE
          /\ pc' = "flush"
          /\ opening' = i
          /\ UNCHANGED promise
  /\ UNCHANGED <<ws, queue, timers, wire, dropped, nextMsg, userDisconnected>>
  /\ UNCHANGED <<sendErrors, sendTrue, noopConnect>>
  /\ UNCHANGED notWS

\* one iteration of processQueue's while loop
FlushStep ==
  /\ pc = "flush"
  /\ queue # <<>>
  /\ \E throws \in Throws :
       LET s == Shift(queue)
           r == SendEffect(s.item, s.rest, CanSend(connected, ws, sock), throws)
       IN /\ queue' = r.queue
          /\ wire' = r.wire
          /\ dropped' = r.dropped
          /\ sendErrors' = IF r.error THEN sendErrors + 1 ELSE sendErrors
          /\ sendTrue' = IF r.returns THEN sendTrue + 1 ELSE sendTrue
  /\ UNCHANGED <<ws, connected, reconnectAttempts, heartbeatTimer, processingQueue,
                 sock, promise, timers, pc, opening, nextMsg, schedLog, maxReached,
                 failedReconnects, userDisconnected>>
  /\ UNCHANGED noopConnect
  /\ UNCHANGED notWS

\* the loop's exit and the rest of the 'open' handler: emit('connected'), resolve()
FlushDone ==
  /\ pc = "flush"
  /\ queue = <<>>
  /\ processingQueue' = FALSE
  /\ promise' = [promise EXCEPT ![opening] = "none"]
  /\ pc' = "idle"
  /\ opening' = 0
  /\ UNCHANGED <<ws, connected, reconnectAttempts, heartbeatTimer, queue, sock, timers,
                 wire, dropped, nextMsg, schedLog, maxReached,
                 failedReconnects, userDisconnected>>
  /\ UNCHANGED <<sendErrors, sendTrue, noopConnect>>
  /\ UNCHANGED notWS

\* scheduleReconnect() called n times in a row with this.reconnectAttempts = attempts
Scheduled(log, attempts, n) ==
  IF n = 0 THEN log
  ELSE IF n = 1 THEN Append(log, ReconnectDelay(attempts))
  ELSE Append(Append(log, ReconnectDelay(attempts)), ReconnectDelay(attempts))

\* Socket i ends. A socket that never opened emits 'error' first (the handler
\* rejects the promise unless this.connected), then 'close'; the rejection reaches
\* the catch of a reconnect timer's callback after the 'close' handler.
CloseEffects(i) ==
  LET rejected == promise[i] # "none" /\ ~connected
      byClose == IF shouldReconnect(reconnectAttempts) THEN 1 ELSE 0
      caught == rejected /\ promise[i] = "timer"
      byCatch == IF caught /\ shouldReconnect(reconnectAttempts) THEN 1 ELSE 0
  IN /\ sock' = [sock EXCEPT ![i] = "CLOSED"]
     /\ promise' = IF rejected THEN [promise EXCEPT ![i] = "none"] ELSE promise
     /\ connected' = FALSE
     /\ heartbeatTimer' = FALSE
     /\ timers' = Scheduled(timers, reconnectAttempts, byClose + byCatch)
     /\ schedLog' = Scheduled(schedLog, reconnectAttempts, byClose + byCatch)
     /\ maxReached' = IF caught /\ ~shouldReconnect(reconnectAttempts)
                      THEN maxReached + 1 ELSE maxReached
     /\ failedReconnects' = IF caught THEN failedReconnects + 1 ELSE failedReconnects
     /\ UNCHANGED <<ws, reconnectAttempts, queue, processingQueue, pc, opening,
                    wire, dropped, nextMsg, userDisconnected>>
     /\ UNCHANGED <<sendErrors, sendTrue>>
     /\ noopConnect' = FALSE
     /\ UNCHANGED notWS

\* the connection attempt of socket i fails
SocketFail(i) ==
  /\ pc = "idle"
  /\ sock[i] = "CONNECTING"
  /\ CloseEffects(i)

\* an open socket is closed by the peer, or a socket closed by disconnect() ends
SocketClose(i) ==
  /\ pc = "idle"
  /\ sock[i] \in {"OPEN", "CLOSING"}
  /\ CloseEffects(i)

\* the callback of reconnect timer k (scheduleReconnect, App.js:434-447) up to
\* its await
TimerFire(k) ==
  /\ pc = "idle"
  /\ k \in 1..Len(timers)
  /\ timers' = RemoveAt(timers, k)
  /\ reconnectAttempts' = reconnectAttempts + 1
  /\ ConnectEffect("timer")
  /\ UNCHANGED <<connected, heartbeatTimer, queue, processingQueue, pc, opening,
                 wire, dropped, nextMsg, schedLog, maxReached,
                 failedReconnects, userDisconnected>>
  /\ UNCHANGED <<sendErrors, sendTrue, noopConnect>>
  /\ UNCHANGED notWS

\* frames: what the frame decodes to ("null" for an unknown or corrupt frame that
\* decodes to no name), whether decoding raises, and which listener raises
Methods == {"chatAdded", "entityAdded"}

Frames ==
  {f \in [name : Methods \cup {"null"}, decodeThrows : BOOLEAN,
          listenerThrows : {"none", "packet", "named"}] :
     /\ f.decodeThrows => (f.name = "null" /\ f.listenerThrows = "none")
     /\ f.name = "null" => f.listenerThrows = "none"}

\* the events handleMessage(data) emits for a frame, and whether it raises
HandleUnguarded(f) ==
  IF f.decodeThrows THEN [events |-> <<>>, raises |-> TRUE]
  ELSE IF f.name = "null" THEN [events |-> <<>>, raises |-> FALSE]
  ELSE IF f.listenerThrows = "packet" THEN [events |-> <<"packet">>, raises |-> TRUE]
  ELSE IF f.listenerThrows = "named" THEN [events |-> <<"packet", f.name>>, raises |-> TRUE]
  ELSE [events |-> <<"packet", f.name>>, raises |-> FALSE]
Handle(f) ==
  IF f.decodeThrows THEN [events |-> <<"error">>, raises |-> FALSE]
  ELSE IF f.name = "null" THEN [events |-> <<>>, raises |-> FALSE]
  ELSE IF f.listenerThrows = "packet" THEN [events |-> <<"packet", "error">>, raises |-> FALSE]
  ELSE IF f.listenerThrows = "named"
  THEN [events |-> <<"packet", f.name, "error">>, raises |-> FALSE]
  ELSE [events |-> <<"packet", f.name>>, raises |-> FALSE]

InitMsg ==
  /\ received = <<>>
  /\ emitted = <<>>
  /\ raised = FALSE

\* the socket's 'message' callback: handleMessage(data). An exception that leaves
\* it is uncaught, and no frame is handled after it.
HandleMessage(f) ==
  /\ ~raised
  /\ Len(received) < MaxFrames
  /\ received' = Append(received, f)
  /\ emitted' = emitted \o Handle(f).events
  /\ raised' = Handle(f).raises
  /\ UNCHANGED notMsg

NextMsg == \E f \in Frames : HandleMessage(f)

NextWS ==
  \/ Connect
  \/ Disconnect
  \/ Send
  \/ Heartbeat
  \/ \E i \in Sockets : SocketOpen(i)
  \/ FlushStep
  \/ FlushDone
  \/ \E i \in Sockets : SocketFail(i)
  \/ \E i \in Sockets : SocketClose(i)
  \/ \E k \in 1..(2 * (MaxSockets + 1)) : TimerFire(k)


(***************************************************************************)
(* ErrorMonitor                                                            *)
(***************************************************************************)
Types == {"console.error", "window.error"}

\* what the args of a call say: a text no severity pattern matches, and one that
\* /webgl/i matches
Msgs == {"plain", "webgl"}

\* the listeners subscribed with addListener, in the order they were added
Listeners == <<"l1", "l2">>

NoOut == [id |-> 0, type |-> "none", text |-> "none", events |-> <<>>, reports |-> 0,
          raised |-> FALSE]

InitEM ==
  /\ errors = <<>>
  /\ errorId = 0
  /\ now = 0
  /\ isClient = FALSE
  /\ lastCleared = 0
  /\ lastCalled = "none"
  /\ lastOut = NoOut
  /\ streak = 0
  /\ streakFirst = 0

Ids(es) == {es[k].id : k \in 1..Len(es)}

Min(S) == CHOOSE x \in S : \A y \in S : x <= y

\* the test of captureError's eviction (ErrorMonitor.js:130)
OverflowsLate(es) == Len(es) > maxErrors + 1
Overflows(es) == Len(es) > maxErrors

\* this.errors.push(errorEntry), then one shift() if the buffer is over its capacity
Pushed(es, r) ==
  LET p == Append(es, r)
  IN IF Overflows(p) THEN Tail(p) ELSE p

\* the args of a call are a list (the rest arguments of an intercepted console
\* method) or one object (what the listeners of the window 'error' event, of
\* unhandled rejections and of uncaught exceptions pass)
ArgsAreList(type) == type # "window.error"

\* serializeArgs(args), joined: Array.from of an object that is not a list is []
SerializeArgs(type, msg) == IF ArgsAreList(type) THEN msg ELSE "empty"

NewRecordByLength(type, msg) ==
  [id |-> Len(errors) + 1, ts |-> now, type |-> type, msg |-> SerializeArgs(type, msg)]
NewRecord(type, msg) ==
  [id |-> errorId + 1, ts |-> now, type |-> type, msg |-> SerializeArgs(type, msg)]

\* isCriticalError(type, args): a pattern matches the joined args (the type is not
\* part of the text that is tested)
criticalPatterns(text) == text \in {"webgl", "network.error"}

isCriticalError(type, msg) == criticalPatterns(msg)

\* the types and the texts isCriticalError is called with: each set has a member
\* that /network.*error/i or /webgl/i matches and one that no pattern matches
ClassifiedTypes == {"console.error", "network.error"}
ClassifiedTexts == {"plain", "webgl", "network.error"}

NoConsoleCall == [method |-> "none", captured |-> FALSE]

\* the constructor calls interceptConsole() before anything has set this.debugMode:
\* `if (this.debugMode)` reads undefined and console.log is left as it is
InitConsole ==
  /\ debugMode = FALSE
  /\ logIntercepted = debugMode
  /\ consoleCalls = 0
  /\ lastConsole = NoConsoleCall

InitObj == classified = <<>> /\ InitConsole

\* a call of isCriticalError(type, args)
Classify(type, msg) ==
  /\ Len(classified) < MaxClassified
  /\ classified' = Append(classified, [type |-> type, text |-> msg,
                                        critical |-> isCriticalError(type, msg)])
  /\ UNCHANGED <<conVars, entVars, plVars, sdkVars>>
  /\ UNCHANGED notObj

NextClassify == \E type \in ClassifiedTypes : \E msg \in ClassifiedTexts : Classify(type, msg)

\* notifyListeners(event, errorEntry): every listener in turn
NotifyListeners(event, id) ==
  [k \in 1..Len(Listeners) |-> [to |-> Listeners[k], event |-> event, id |-> id]]

\* captureError after the push: notify 'error', then isCriticalError(type, args) on
\* the args as given, args.join raising for args that are not a list, then
\* handleCriticalError
Outcome(type, msg, id) ==
  IF ~ArgsAreList(type)
  THEN [id |-> id, type |-> type, text |-> msg, events |-> NotifyListeners("error", id),
        reports |-> 0, raised |-> TRUE]
  ELSE IF isCriticalError(type, msg)
  THEN [id |-> id, type |-> type, text |-> msg,
        events |-> NotifyListeners("error", id) \o NotifyListeners("critical", id),
        reports |-> IF isClient THEN 1 ELSE 0, raised |-> FALSE]
  ELSE [id |-> id, type |-> type, text |-> msg, events |-> NotifyListeners("error", id),
        reports |-> 0, raised |-> FALSE]

\* captureError(type, args, stack)
CaptureError(type, msg) ==
  /\ errorId < MaxErrorId
  /\ errorId' = errorId + 1
  /\ errors' = Pushed(errors, NewRecord(type, msg))
  /\ lastOut' = Outcome(type, msg, NewRecord(type, msg).id)
  /\ lastCalled' = "captureError"
  /\ UNCHANGED <<now, isClient, lastCleared>>

\* Array.prototype.sort with (a, b) => new Date(b.timestamp) - new Date(a.timestamp):
\* stable, latest first. A timestamp is an ISO string of millisecond precision, which
\* new Date() reads back as the same instant.
RECURSIVE InsertDesc(_, _)
InsertDesc(sorted, r) ==
  IF sorted = <<>> THEN <<r>>
  ELSE IF Head(sorted).ts >= r.ts THEN <<Head(sorted)>> \o InsertDesc(Tail(sorted), r)
  ELSE <<r>> \o sorted

RECURSIVE SortDesc(_)
SortDesc(es) ==
  IF es = <<>> THEN <<>>
  ELSE InsertDesc(SortDesc(SubSeq(es, 1, Len(es) - 1)), es[Len(es)])

\* the options of getErrors; "null" and -1 stand for an option that is not given
Side == IF isClient THEN "client" ELSE "server"

Options ==
  [type : {"null", "console.error"}, since : {-1, TickHours}, side : {"null", "server"},
   critical : {"null", "true"}, limit : {1, 50}]

\* the filters of getErrors (ErrorMonitor.js:318-335); `since` 0 is falsy
FilterType(es, o) ==
  IF o.type # "null" THEN SelectSeq(es, LAMBDA e : e.type = o.type) ELSE es
FilterSince(es, o) ==
  IF o.since > 0 THEN SelectSeq(es, LAMBDA e : e.ts >= o.since) ELSE es
FilterSide(es, o) ==
  IF o.side # "null" THEN SelectSeq(es, LAMBDA e : Side = o.side) ELSE es
FilterCritical(es, o) ==
  IF o.critical # "null"
  THEN SelectSeq(es, LAMBDA e : isCriticalError(e.type, e.msg) = (o.critical = "true"))
  ELSE es

Filtered(es, o) == FilterCritical(FilterSide(FilterSince(FilterType(es, o), o), o), o)

\* no filter ran, so `filtered` still is this.errors itself and not a copy
SameArray(o) ==
  o.type = "null" /\ ~(o.since > 0) /\ o.side = "null" /\ o.critical = "null"

Take(es, n) == SubSeq(es, 1, IF Len(es) < n THEN Len(es) ELSE n)

\* what getErrors(o) returns
getErrors(o) == Take(SortDesc(Filtered(errors, o)), o.limit)

\* getErrors(o): sort() sorts `filtered` in place
GetErrors(o) ==
  /\ errors' = IF SameArray(o) THEN SortDesc(errors) ELSE errors
  /\ lastCalled' = "getErrors"
  /\ streak' = 0
  /\ streakFirst' = 0
  /\ UNCHANGED <<errorId, now, isClient, lastCleared, lastOut>>
  /\ UNCHANGED notEM

\* what getStats() returns
getStats ==
  LET recent == SelectSeq(errors, LAMBDA e : e.ts >= now - HourHours)
  IN [total |-> Len(errors),
      recent |-> Len(recent),
      critical |-> Len(SelectSeq(recent, LAMBDA e : isCriticalError(e.type, e.msg))),
      byType |-> [t \in {recent[k].type : k \in 1..Len(recent)} |->
                    Len(SelectSeq(recent, LAMBDA e : e.type = t))]]

\* getStats(): reads only
GetStats ==
  /\ getStats.total = Len(errors)
  /\ lastCalled' = "getStats"
  /\ streak' = 0
  /\ streakFirst' = 0
  /\ UNCHANGED <<errors, errorId, now, isClient, lastCleared, lastOut>>
  /\ UNCHANGED notEM

\* what cleanup() leaves in the buffer at time t: cutoff is t minus 24 hours
cleanupStrict(es, t) == SelectSeq(es, LAMBDA e : e.ts > t - DayHours)
cleanup(es, t) == SelectSeq(es, LAMBDA e : e.ts >= t - DayHours)

\* cleanup(), run by the interval of the constructor
Cleanup ==
  /\ errors' = cleanup(errors, now)
  /\ lastCalled' = "cleanup"
  /\ streak' = 0
  /\ streakFirst' = 0
  /\ UNCHANGED <<errorId, now, isClient, lastCleared, lastOut>>
  /\ UNCHANGED notEM

clearErrors == Len(errors)

ClearErrors ==
  /\ lastCleared' = clearErrors
  /\ lastCalled' = "clearErrors"
  /\ errors' = <<>>
  /\ errorId' = 0
  /\ streak' = 0
  /\ streakFirst' = 0
  /\ UNCHANGED <<now, isClient, lastOut>>
  /\ UNCHANGED notEM

Tick ==
  /\ now < MaxTicks * TickHours
  /\ now' = now + TickHours
  /\ UNCHANGED <<errors, errorId, isClient, lastCleared, lastCalled, lastOut, streak, streakFirst>>
  /\ UNCHANGED notEM

\* one more captureError call in a row
CountStreak ==
  /\ streak' = IF errors = <<>> THEN 1
               ELSE IF streak = 0 THEN 0
               ELSE IF streak > maxErrors THEN maxErrors + 2
               ELSE streak + 1
  /\ streakFirst' = IF errors = <<>> THEN errorId + 1 ELSE streakFirst

\* a captureError call from the console interception or a global error handler
Capture ==
  /\ \E type \in Types, msg \in Msgs : CaptureError(type, msg)
  /\ CountStreak
  /\ UNCHANGED notEM

\* the options init() is given: debugMode true, false or not set
InitOptions == {"true", "false", "absent"}

\* init(options)
InitMonitor(options) ==
  /\ debugMode' = (options = "true")
  /\ UNCHANGED <<logIntercepted, consoleCalls, lastConsole, classified, entVars, plVars, sdkVars>>
  /\ UNCHANGED emVars
  /\ UNCHANGED notEM_Obj

ConsoleMethods == {"error", "warn", "log"}

ConsoleType(method) ==
  CASE method = "error" -> "console.error"
    [] method = "warn" -> "console.warn"
    [] method = "log" -> "console.log"

\* the method is one that interceptConsole() replaced
Intercepted(method) == method \in {"error", "warn"} \/ (method = "log" /\ logIntercepted)

\* console.error(...args), console.warn(...args) or console.log(...args)
ConsoleCall(method, msg) ==
  /\ consoleCalls < MaxConsoleCalls
  /\ consoleCalls' = consoleCalls + 1
  /\ lastConsole' = [method |-> method, captured |-> Intercepted(method)]
  /\ IF Intercepted(method)
     THEN CaptureError(ConsoleType(method), msg) /\ CountStreak
     ELSE UNCHANGED emVars
  /\ UNCHANGED <<debugMode, logIntercepted, classified, entVars, plVars, sdkVars>>
  /\ UNCHANGED notEM_Obj

NextConsole ==
  \/ \E options \in InitOptions : InitMonitor(options)
  \/ \E method \in ConsoleMethods, msg \in Msgs : ConsoleCall(method, msg)

NextEM ==
  \/ Capture
  \/ \E o \in Options : GetErrors(o)
  \/ GetStats
  \/ Cleanup
  \/ ClearErrors
  \/ Tick

(***************************************************************************)
(* Blueprints                                                              *)
(***************************************************************************)
BpIds == {"bp1", "bp2"}
Names == {"a", "b"}
Entities == {"e1", "e2", "e3"}

\* what an entity that was never rebuilt saw of the registry
NotBuilt == [id |-> "none", version |-> 0, name |-> "a"]

\* the records add is given: a new blueprint starts with the name "a"
Blueprints == [id : BpIds, version : 0..MaxVersion, name : {"a"}]

\* the payloads modify is given: an id and any of the keys version and name (a key
\* that is not carried has a fixed value, which is never read)
Payloads ==
  {p \in [id : BpIds, keys : SUBSET {"version", "name"}, version : 0..MaxVersion, name : Names] :
     /\ "version" \notin p.keys => p.version = 0
     /\ "name" \notin p.keys => p.name = "a"}

\* lastSent before anything was sent
NoMessage ==
  [name |-> "none", id |-> "none", success |-> TRUE, errors |-> <<>>, monitored |-> FALSE,
   captured |-> 0]

\* lastCall: the call's kind and blueprint id; for a modify of a stored blueprint,
\* whether the merged candidate equals the stored value; and what the call did:
\* "written" (this.items.set was called), "skipped" (it returned before that) or
\* "rejected" (it raised, and its promise is rejected)
NoCall == [kind |-> "none", id |-> "none", same |-> FALSE, outcome |-> "none"]

InitBP ==
  /\ items = [b \in {} |-> 0]
  /\ entities = [e \in Entities |->
                   [blueprint |-> IF e \in {"e1", "e2"} THEN "bp1" ELSE "bp2", state |-> "set",
                    builds |-> 0, saw |-> NotBuilt]]
  /\ inflight = <<>>
  /\ netSent = 0
  /\ lastSent = NoMessage
  /\ modifyEvents = 0
  /\ calls = 0
  /\ lastCall = NoCall

\* this.items.set(id, value)
ItemsSet(id, value) == [b \in DOMAIN items \cup {id} |-> IF b = id THEN value ELSE items[b]]

\* { ...blueprint, ...data }: the keys of the payload win
Merge(blueprint, data) ==
  [id |-> data.id,
   version |-> IF "version" \in data.keys THEN data.version ELSE blueprint.version,
   name |-> IF "name" \in data.keys THEN data.name ELSE blueprint.name]

\* const changed = !isEqual(blueprint, modified)
ChangedAlways(blueprint, modified) == TRUE
Changed(blueprint, modified) == blueprint # modified

explicitBlueprintErrors ==
  {"app.script.load", "app.model.load", "app.script.compile", "app.script.runtime",
   "blueprint.validation", "gltfloader.error", "console.error", "console.warn"}

\* a text of errorPatterns, the blueprint's id among them, is part of the record's
\* message
hasErrorPattern(e, blueprintId) == e.msg \in {"webgl", blueprintId}

\* isBlueprintRelatedError(error, blueprintId): every path returns true
isBlueprintRelatedError(e, blueprintId) ==
  IF e.type \in explicitBlueprintErrors THEN TRUE
  ELSE IF hasErrorPattern(e, blueprintId) THEN TRUE
  ELSE TRUE

\* what executeWithErrorMonitoring returns after its wait, for the call `op`
Response(op) ==
  LET errorsAfter == Len(errors)
      newErrors == IF errorsAfter > op.before
                   THEN SubSeq(errors, op.before + 1, errorsAfter) ELSE <<>>
      blueprintErrors == SelectSeq(newErrors, LAMBDA e : isBlueprintRelatedError(e, op.id))
  IN [name |-> IF op.kind = "add" THEN "blueprintAdded" ELSE "blueprintModified",
      id |-> op.id,
      success |-> blueprintErrors = <<>>,
      errors |-> [k \in 1..Len(blueprintErrors) |-> blueprintErrors[k].id],
      monitored |-> TRUE,
      captured |-> op.captured]

\* what it returns at once when there is no error monitor: the operation's result
Unmonitored(kind, result) ==
  [name |-> IF kind = "add" THEN "blueprintAdded" ELSE "blueprintModified",
   id |-> result.id,
   success |-> TRUE,
   errors |-> <<>>,
   monitored |-> FALSE,
   captured |-> 0]

Started(kind, result, before, captured) ==
  [kind |-> kind, id |-> result.id, before |-> before, result |-> result,
   captured |-> captured]

CountCapture(ops, n) == [k \in 1..Len(ops) |-> [ops[k] EXCEPT !.captured = @ + n]]

\* add(data, local)
Add(data, local) ==
  /\ calls < MaxCalls
  /\ calls' = calls + 1
  /\ lastCall' = [kind |-> "add", id |-> data.id, same |-> FALSE, outcome |-> "written"]
  /\ items' = ItemsSet(data.id, data)
  /\ IF ~local THEN UNCHANGED <<inflight, netSent, lastSent>>
     ELSE IF hasMonitor
     THEN /\ inflight' = Append(inflight, Started("add", data, Len(errors), 0))
          /\ UNCHANGED <<netSent, lastSent>>
     ELSE /\ netSent' = netSent + 1
          /\ lastSent' = Unmonitored("add", data)
          /\ UNCHANGED inflight
  /\ UNCHANGED <<entities, hasMonitor, modifyEvents, emVars, wsVars, stVars, msgVars, objVars, socketLimit>>

\* the loop of modify's operation: every entity of the blueprint is cleared and
\* rebuilt, its build() reading the registry as it is by then
RebuiltAll(id, registry) ==
  [e \in Entities |->
     [entities[e] EXCEPT !.state = "empty", !.builds = @ + 1, !.saw = registry[id]]]
Rebuilt(id, registry) ==
  [e \in Entities |->
     IF entities[e].blueprint = id
     THEN [entities[e] EXCEPT !.state = "empty", !.builds = @ + 1, !.saw = registry[id]]
     ELSE entities[e]]

\* modify(data); the operation's rebuilds capture n errors before it returns
Modify(data, n) ==
  /\ calls < MaxCalls
  /\ calls' = calls + 1
  /\ IF data.id \notin DOMAIN items
     THEN \* blueprint is undefined: reading blueprint.id raises
          /\ n = 0
          /\ lastCall' = [kind |-> "modify", id |-> data.id, same |-> FALSE,
                          outcome |-> "rejected"]
          /\ UNCHANGED <<items, entities, inflight, netSent, lastSent, modifyEvents, emVars>>
     ELSE LET blueprint == items[data.id]
              modified == Merge(blueprint, data)
              changed == Changed(blueprint, modified)
          IN /\ lastCall' = [kind |-> "modify", id |-> data.id, same |-> modified = blueprint,
                             outcome |-> IF changed THEN "written" ELSE "skipped"]
             /\ IF ~changed
                THEN /\ n = 0
                     /\ UNCHANGED <<items, entities, inflight, netSent, lastSent,
                                    modifyEvents, emVars>>
                ELSE /\ items' = ItemsSet(blueprint.id, modified)
                     /\ entities' = Rebuilt(blueprint.id, items')
                     /\ IF n = 0 THEN UNCHANGED <<errors, errorId, now, isClient, lastCleared, lastCalled,
                                                   lastOut>>
                        ELSE hasMonitor /\ CaptureError("console.error", "plain")
                     /\ UNCHANGED <<streak, streakFirst>>
                     /\ IF hasMonitor
                        THEN /\ inflight' = Append(CountCapture(inflight, n),
                                                   Started("modify", modified, Len(errors), n))
                             /\ UNCHANGED <<netSent, lastSent, modifyEvents>>
                        ELSE /\ netSent' = netSent + 1
                             /\ lastSent' = Unmonitored("modify", modified)
                             /\ modifyEvents' = modifyEvents + 1
                             /\ UNCHANGED inflight
  /\ UNCHANGED <<hasMonitor, wsVars, stVars, msgVars, objVars, socketLimit>>

\* the timeout of the oldest waiting executeWithErrorMonitoring call fires: the rest
\* of add or modify runs
WindowEnd ==
  /\ inflight # <<>>
  /\ LET op == Head(inflight)
     IN /\ netSent' = netSent + 1
        /\ lastSent' = Response(op)
        /\ modifyEvents' = IF op.kind = "modify" THEN modifyEvents + 1 ELSE modifyEvents
  /\ inflight' = Tail(inflight)
  /\ UNCHANGED <<items, entities, hasMonitor, calls, lastCall, emVars, wsVars, stVars, msgVars, objVars, socketLimit>>

\* an error is captured while calls may be waiting
CapturedMeanwhile(type, msg) ==
  /\ hasMonitor
  /\ CaptureError(type, msg)
  /\ inflight' = CountCapture(inflight, 1)
  /\ UNCHANGED <<streak, streakFirst>>
  /\ UNCHANGED <<items, entities, hasMonitor, netSent, lastSent, modifyEvents, calls,
                 lastCall, wsVars, stVars, msgVars, objVars, socketLimit>>

NextBP ==
  \/ \E data \in Blueprints, local \in BOOLEAN : Add(data, local)
  \/ \E data \in Payloads, n \in 0..1 : Modify(data, n)
  \/ WindowEnd
  \/ \E type \in Types : CapturedMeanwhile(type, "plain")

(***************************************************************************)
(* The client's entity store: snapshot and incremental events              *)
(***************************************************************************)
EntityIds == {"id1", "id2"}

\* the type tag of a raw record: 'player', 'app', another tag, or none
Tags == {"player", "app", "npc", "none"}

\* the name a raw record or a patch carries; "none" for a key that is absent
RawNames == {"none", "n1"}

RawRecords == [id : EntityIds, type : Tags, name : RawNames]

\* new Entity(client, data): type is data.type || 'entity', name is data.name or
\* a name made from the id
Entity(data) ==
  [class |-> "Entity",
   id |-> data.id,
   type |-> IF data.type = "none" THEN "entity" ELSE data.type,
   name |-> IF data.name = "none" THEN "Entity-id" ELSE data.name]

\* new Player(client, data): an Entity whose type is 'player'
Player(data) == [Entity(data) EXCEPT !.class = "Player", !.type = "player"]

\* new App(client, data): an Entity whose type is 'app'
App(data) == [Entity(data) EXCEPT !.class = "App", !.type = "app"]

\* the object handleSnapshot builds for a record of the snapshot whose id is localId
SnapshotBuildLocalOnly(entityData, localId) ==
  IF entityData.type = "player" /\ entityData.id = localId THEN Player(entityData)
  ELSE IF entityData.type = "app" THEN App(entityData)
  ELSE Entity(entityData)
SnapshotBuild(entityData, localId) ==
  IF entityData.type = "player" THEN Player(entityData)
  ELSE IF entityData.type = "app" THEN App(entityData)
  ELSE Entity(entityData)

\* the object handleEntityAdded builds for a record
AddedBuild(data) ==
  IF data.type = "player" THEN Player(data)
  ELSE IF data.type = "app" THEN App(data)
  ELSE Entity(data)

\* Entity.update(data), for the keys of the model
Update(entity, data) ==
  [entity EXCEPT !.name = IF data.name # "none" THEN data.name ELSE @]

\* a snapshot: the id of the local player and the records of its entities, one per id
Snapshots ==
  {s \in [id : EntityIds, ids : SUBSET EntityIds, type : [EntityIds -> Tags],
          name : [EntityIds -> RawNames]] :
     \A e \in EntityIds \ s.ids : s.type[e] = "none" /\ s.name[e] = "none"}

SnapshotRecord(s, e) == [id |-> e, type |-> s.type[e], name |-> s.name[e]]

NoEvent == [kind |-> "none", id |-> "none", data |-> "none", ids |-> {}]

InitStore ==
  /\ clientEntities = [e \in {} |-> 0]
  /\ removed = {}
  /\ lastEvent = NoEvent

\* handleSnapshot(data): both maps are replaced from the snapshot
ApplySnapshot(s) ==
  /\ clientEntities' = [e \in s.ids |-> SnapshotBuild(SnapshotRecord(s, e), s.id)]
  /\ removed' = removed \ s.ids
  /\ lastEvent' = [kind |-> "snapshot", id |-> s.id, data |-> s, ids |-> s.ids]
  /\ UNCHANGED notStore

\* handleEntityAdded(data): build and insert, a present id is overwritten
ApplyEntityAdded(data) ==
  /\ clientEntities' = [e \in DOMAIN clientEntities \cup {data.id} |->
                          IF e = data.id THEN AddedBuild(data) ELSE clientEntities[e]]
  /\ removed' = removed \ {data.id}
  /\ lastEvent' = [kind |-> "entityAdded", id |-> data.id, data |-> data, ids |-> {data.id}]
  /\ UNCHANGED notStore

\* what handleEntityModified(data) leaves in the map
ModifiedUpsert(es, data) ==
  [e \in DOMAIN es \cup {data.id} |->
     IF e # data.id THEN es[e]
     ELSE IF e \in DOMAIN es THEN Update(es[e], data) ELSE Update(Entity(data), data)]
Modified(es, data) ==
  IF data.id \in DOMAIN es
  THEN [es EXCEPT ![data.id] = Update(@, data)]
  ELSE es

\* handleEntityModified(data): an absent id is ignored
ApplyEntityModified(data) ==
  /\ clientEntities' = Modified(clientEntities, data)
  /\ lastEvent' = [kind |-> "entityModified", id |-> data.id, data |-> data, ids |-> {}]
  /\ UNCHANGED removed
  /\ UNCHANGED notStore

\* this.entities.delete(id)
RemovedAll(es, id) == IF id \in DOMAIN es THEN [e \in {} |-> 0] ELSE es
Removed(es, id) == [e \in DOMAIN es \ {id} |-> es[e]]

\* handleEntityRemoved(id): delete, nothing if absent
ApplyEntityRemoved(id) ==
  /\ clientEntities' = Removed(clientEntities, id)
  /\ removed' = removed \cup {id}
  /\ lastEvent' = [kind |-> "entityRemoved", id |-> id, data |-> "none", ids |-> {}]
  /\ UNCHANGED notStore

NextStore ==
  \/ \E s \in Snapshots : ApplySnapshot(s)
  \/ \E data \in RawRecords : ApplyEntityAdded(data)
  \/ \E data \in RawRecords : ApplyEntityModified(data)
  \/ \E id \in EntityIds : ApplyEntityRemoved(id)

(***************************************************************************)
(* An Entity object of the client (hypersdk/src/client/Entity.js)          *)
(***************************************************************************)
\* the arrays a record, a patch or a caller gives for a position, a quaternion
\* and a scale: nothing checks their length
Positions == {<<1, 2, 3>>, <<1, 2>>}
Quaternions == {<<0, 1, 0, 0>>}
Scales == {<<2, 2, 2>>}

\* the state a record or a patch carries: keys a and b, whose values are objects
GivenStates == {[k \in {"a"} |-> [x |-> 1]], [k \in {"a"} |-> [y |-> 2]],
                [k \in {"b"} |-> [x |-> 1]]}

EmptyState == [k \in {} |-> [x |-> 1]]

EntityNames == {"n1"}

\* the records and patches of the model: `keys` are the keys the object carries,
\* the value of a key it does not carry is fixed and never read
EntityKeys == {"position", "quaternion", "scale", "state", "name"}
EntityData ==
  {d \in [keys : SUBSET EntityKeys, position : Positions, quaternion : Quaternions,
           scale : Scales, state : GivenStates, name : EntityNames] :
     /\ "position" \notin d.keys => d.position = <<1, 2, 3>>
     /\ "state" \notin d.keys => d.state = [k \in {"a"} |-> [x |-> 1]]}

NoData ==
  [keys |-> {}, position |-> <<1, 2, 3>>, quaternion |-> <<0, 1, 0, 0>>,
   scale |-> <<2, 2, 2>>, state |-> [k \in {"a"} |-> [x |-> 1]], name |-> "n1"]

\* new Entity(client, data), for the fields of the model
NewEntity(data) ==
  [position |-> IF "position" \in data.keys THEN data.position ELSE <<0, 0, 0>>,
   quaternion |-> IF "quaternion" \in data.keys THEN data.quaternion ELSE <<0, 0, 0, 1>>,
   scale |-> IF "scale" \in data.keys THEN data.scale ELSE <<1, 1, 1>>,
   state |-> IF "state" \in data.keys THEN data.state ELSE EmptyState,
   name |-> IF "name" \in data.keys THEN data.name ELSE "Entity-id"]

\* { ...this.state, ...data.state }
SpreadDeep(state, given) ==
  [k \in DOMAIN state \cup DOMAIN given |->
     IF k \in DOMAIN given /\ k \in DOMAIN state
     THEN [f \in DOMAIN state[k] \cup DOMAIN given[k] |->
             IF f \in DOMAIN given[k] THEN given[k][f] ELSE state[k][f]]
     ELSE IF k \in DOMAIN given THEN given[k] ELSE state[k]]
Spread(state, given) ==
  [k \in DOMAIN state \cup DOMAIN given |->
     IF k \in DOMAIN given THEN given[k] ELSE state[k]]

\* update(data), for the fields of the model (lastModified is not one of them)
EntityUpdate(e, data) ==
  [position |-> IF "position" \in data.keys THEN data.position ELSE e.position,
   quaternion |-> IF "quaternion" \in data.keys THEN data.quaternion ELSE e.quaternion,
   scale |-> IF "scale" \in data.keys THEN data.scale ELSE e.scale,
   state |-> IF "state" \in data.keys THEN Spread(e.state, data.state) ELSE e.state,
   name |-> IF "name" \in data.keys THEN data.name ELSE e.name]

\* setTransform(position, quaternion = null, scale = null): the keys of `data` are
\* the arguments that are not null
setTransform(e, data) ==
  [e EXCEPT !.position = IF "position" \in data.keys THEN data.position ELSE @,
            !.quaternion = IF "quaternion" \in data.keys THEN data.quaternion ELSE @,
            !.scale = IF "scale" \in data.keys THEN data.scale ELSE @]

InitEntity ==
  /\ ent = NewEntity(NoData)
  /\ lastOp = [kind |-> "new", data |-> NoData]

\* entity.update(data)
UpdateEntity(data) ==
  /\ ent' = EntityUpdate(ent, data)
  /\ lastOp' = [kind |-> "update", data |-> data]
  /\ UNCHANGED <<classified, conVars, plVars, sdkVars>>
  /\ UNCHANGED notObj

\* entity.setPosition(position)
SetPosition(position) ==
  /\ ent' = [ent EXCEPT !.position = position]
  /\ lastOp' = [kind |-> "setPosition", data |-> [NoData EXCEPT !.position = position]]
  /\ UNCHANGED <<classified, conVars, plVars, sdkVars>>
  /\ UNCHANGED notObj

\* entity.setQuaternion(quaternion)
SetQuaternion(quaternion) ==
  /\ ent' = [ent EXCEPT !.quaternion = quaternion]
  /\ lastOp' = [kind |-> "setQuaternion", data |-> [NoData EXCEPT !.quaternion = quaternion]]
  /\ UNCHANGED <<classified, conVars, plVars, sdkVars>>
  /\ UNCHANGED notObj

\* entity.setScale(scale)
SetScale(scale) ==
  /\ ent' = [ent EXCEPT !.scale = scale]
  /\ lastOp' = [kind |-> "setScale", data |-> [NoData EXCEPT !.scale = scale]]
  /\ UNCHANGED <<classified, conVars, plVars, sdkVars>>
  /\ UNCHANGED notObj

\* entity.setTransform(position, quaternion, scale)
SetTransform(data) ==
  /\ data.keys \subseteq {"position", "quaternion", "scale"}
  /\ ent' = setTransform(ent, data)
  /\ lastOp' = [kind |-> "setTransform", data |-> data]
  /\ UNCHANGED <<classified, conVars, plVars, sdkVars>>
  /\ UNCHANGED notObj

NextEntity ==
  \/ \E data \in EntityData : UpdateEntity(data)
  \/ \E position \in Positions : SetPosition(position)
  \/ \E quaternion \in Quaternions : SetQuaternion(quaternion)
  \/ \E scale \in Scales : SetScale(scale)
  \/ \E data \in EntityData : SetTransform(data)

(***************************************************************************)
(* A Player object of the client (hypersdk/src/client/Player.js)           *)
(***************************************************************************)
Healths == {0, 50, 75, 100}
Ranks == 0..MaxRank

\* the records and patches of the model: `keys` are the keys the object carries
PlayerData ==
  {d \in [keys : SUBSET {"health", "rank"}, health : Healths, rank : Ranks] :
     /\ "health" \notin d.keys => d.health = 0
     /\ "rank" \notin d.keys => d.rank = 0}

NoPlayerData == [keys |-> {}, health |-> 0, rank |-> 0]

\* value || fallback: 0 is falsy, and so is a key that is absent
OrElse(present, value, fallback) == IF present /\ value # 0 THEN value ELSE fallback

\* new Player(client, data), for the fields of the model
NewPlayer(data) ==
  [health |-> OrElse("health" \in data.keys, data.health, 100),
   rank |-> OrElse("rank" \in data.keys, data.rank, 0)]

\* update(data), for the fields of the model
PlayerUpdate(p, data) ==
  [health |-> IF "health" \in data.keys THEN data.health ELSE p.health,
   rank |-> IF "rank" \in data.keys THEN data.rank ELSE p.rank]

getHealth(p) == p.health
getRank(p) == p.rank

isAdmin(p) == p.rank >= 2
isBuilderOnly(p) == p.rank = 1
isBuilder(p) == p.rank >= 1
isVisitor(p) == p.rank = 0

Permissions == {"admin", "build", "chat", "fly"}

hasPermission(p, permission) ==
  CASE permission = "admin" -> isAdmin(p)
    [] permission = "build" -> isBuilder(p)
    [] permission = "chat" -> TRUE
    [] OTHER -> FALSE

getRankName(p) ==
  CASE p.rank = 2 -> "Admin"
    [] p.rank = 1 -> "Builder"
    [] OTHER -> "Visitor"

InitPlayer ==
  /\ player = NewPlayer(NoPlayerData)
  /\ lastPlayerOp = [kind |-> "new", data |-> NoPlayerData]

\* player.update(data)
UpdatePlayer(data) ==
  /\ player' = PlayerUpdate(player, data)
  /\ lastPlayerOp' = [kind |-> "update", data |-> data]
  /\ UNCHANGED <<classified, conVars, entVars, sdkVars>>
  /\ UNCHANGED notObj

\* player.setHealth(health)
SetHealth(health) ==
  /\ player' = [player EXCEPT !.health = health]
  /\ lastPlayerOp' = [kind |-> "setHealth", data |-> [NoPlayerData EXCEPT !.health = health]]
  /\ UNCHANGED <<classified, conVars, entVars, sdkVars>>
  /\ UNCHANGED notObj

\* player.setRank(rank)
SetRank(rank) ==
  /\ player' = [player EXCEPT !.rank = rank]
  /\ lastPlayerOp' = [kind |-> "setRank", data |-> [NoPlayerData EXCEPT !.rank = rank]]
  /\ UNCHANGED <<classified, conVars, entVars, sdkVars>>
  /\ UNCHANGED notObj

NextPlayer ==
  \/ \E data \in PlayerData : UpdatePlayer(data)
  \/ \E health \in Healths : SetHealth(health)
  \/ \E rank \in Ranks : SetRank(rank)

(***************************************************************************)
(* The wire codec: Packets.writePacket and Packets.readPacket pass their   *)
(* arguments to writePacket and readPacket of core/packets.js.  A frame is  *)
(* the packed array [id, payload]: a sequence of tokens, one header token   *)
(* per value, an array or a map header carrying its number of entries.     *)
(***************************************************************************)
\* a JSON value: its type, its key when it is an entry of an object, and its
\* number, string or entries
JValue(t, n, s, kids) == [t |-> t, k |-> "", n |-> n, s |-> s, kids |-> kids]
JNull == JValue("null", 0, "", <<>>)
JBool(b) == JValue("bool", IF b THEN 1 ELSE 0, "", <<>>)
JNum(n) == JValue("num", n, "", <<>>)
JStr(s) == JValue("str", 0, s, <<>>)
JArr(kids) == JValue("arr", 0, "", kids)
JObj(kids) == JValue("obj", 0, "", kids)
JEntry(key, v) == [v EXCEPT !.k = key]

\* the payloads sent: scalars, empty and nested arrays and objects
JsonPayloads ==
  { JNull, JBool(TRUE), JBool(FALSE), JNum(0), JNum(7), JStr(""), JStr("hi"),
    JArr(<<>>), JArr(<<JNum(1), JStr("a")>>), JObj(<<>>),
    JObj(<<JEntry("id", JStr("e1")), JEntry("position", JArr(<<JNum(1), JNum(2), JNum(3)>>))>>),
    JObj(<<JEntry("state", JObj(<<JEntry("open", JBool(TRUE))>>))>>) }

\* the packet names in the order of the table; a packet's id is its place in it
PacketNames == <<"snapshot", "command", "chatAdded", "entityAdded", "entityModified", "entityRemoved">>
\* the names of the handlers of the packets, in the same order
HandlerNames == <<"onSnapshot", "onCommand", "onChatAdded", "onEntityAdded", "onEntityModified", "onEntityRemoved">>
UnknownIds == {Len(PacketNames), Len(PacketNames) + 1}

byName(name) == (CHOOSE i \in 1..Len(PacketNames) : PacketNames[i] = name) - 1
byId(id) == IF id + 1 \in 1..Len(PacketNames) THEN PacketNames[id + 1] ELSE "null"

Token(tag, n, s) == [tag |-> tag, n |-> n, s |-> s]

RECURSIVE pack(_)
RECURSIVE packAll(_, _)
\* pack: a value as tokens, the header first
pack(v) ==
  CASE v.t = "null" -> <<Token("nil", 0, "")>>
    [] v.t = "bool" -> <<Token(IF v.n = 1 THEN "true" ELSE "false", 0, "")>>
    [] v.t = "num" -> <<Token("int", v.n, "")>>
    [] v.t = "str" -> <<Token("str", 0, v.s)>>
    [] v.t = "arr" -> <<Token("array", Len(v.kids), "")>> \o packAll(v.kids, FALSE)
    [] v.t = "obj" -> <<Token("map", Len(v.kids), "")>> \o packAll(v.kids, TRUE)

\* the entries of an array, or of a map with each entry's key before it
packAll(kids, keyed) ==
  IF kids = <<>> THEN <<>>
  ELSE (IF keyed THEN <<Token("str", 0, Head(kids).k)>> ELSE <<>>)
       \o pack([Head(kids) EXCEPT !.k = ""]) \o packAll(Tail(kids), keyed)

RECURSIVE unpack(_)
RECURSIVE unpackAll(_, _, _)
\* unpack: the value at the head of the tokens and the tokens after it
unpack(tokens) ==
  LET h == Head(tokens)
      rest == Tail(tokens)
  IN CASE h.tag = "nil" -> [v |-> JNull, rest |-> rest]
       [] h.tag = "true" -> [v |-> JBool(TRUE), rest |-> rest]
       [] h.tag = "false" -> [v |-> JBool(FALSE), rest |-> rest]
       [] h.tag = "int" -> [v |-> JNum(h.n), rest |-> rest]
       [] h.tag = "str" -> [v |-> JStr(h.s), rest |-> rest]
       [] h.tag = "array" ->
            LET all == unpackAll(rest, h.n, FALSE)
            IN [v |-> JArr(all.vs), rest |-> all.rest]
       [] h.tag = "map" ->
            LET all == unpackAll(rest, h.n, TRUE)
            IN [v |-> JObj(all.vs), rest |-> all.rest]

\* the next n entries, each after its key when they are the entries of a map
unpackAll(tokens, n, keyed) ==
  IF n = 0 THEN [vs |-> <<>>, rest |-> tokens]
  ELSE LET key == IF keyed THEN Head(tokens).s ELSE ""
           one == unpack(IF keyed THEN Tail(tokens) ELSE tokens)
           more == unpackAll(one.rest, n - 1, keyed)
       IN [vs |-> <<JEntry(key, one.v)>> \o more.vs, rest |-> more.rest]

NoPacket == [name |-> "null", payload |-> JNull]
NoFrame == <<>>

\* writePacket(name, data): the packed array [id of the name, data]
writePacket(name, data) == pack(JArr(<<JNum(byName(name)), data>>))

\* a readPacket that answers with the name of the packet's handler
readPacketAsHandler(packet) ==
  IF packet = NoFrame THEN NoPacket
  ELSE LET pair == unpack(packet).v
           id == pair.kids[1].n
       IN IF byId(id) = "null" THEN NoPacket
          ELSE [name |-> HandlerNames[id + 1], payload |-> pair.kids[2]]

\* readPacket(packet): the name of the unpacked id and the unpacked payload; a
\* frame that holds no known id reads as no name
readPacket(packet) ==
  IF packet = NoFrame THEN NoPacket
  ELSE LET pair == unpack(packet).v
           id == pair.kids[1].n
       IN IF byId(id) = "null" THEN NoPacket
          ELSE [name |-> byId(id), payload |-> pair.kids[2]]

NoRead == [frame |-> NoFrame, name |-> "null", payload |-> JNull]

InitPacket == pkIn = NoPacket /\ pkFrame = NoFrame /\ pkOut = NoRead

notPk == <<classified, conVars, entVars, plVars, chatVars, appVars>>

\* Packets.writePacket(name, data), the frame going on the wire
WritePacket(name, data) ==
  /\ pkIn' = [name |-> name, payload |-> data]
  /\ pkFrame' = writePacket(name, data)
  /\ UNCHANGED pkOut
  /\ UNCHANGED notPk
  /\ UNCHANGED notObj

\* a frame of a packet that is not in the table arrives on the wire
ForeignFrame(id, data) ==
  /\ pkIn' = NoPacket
  /\ pkFrame' = pack(JArr(<<JNum(id), data>>))
  /\ UNCHANGED pkOut
  /\ UNCHANGED notPk
  /\ UNCHANGED notObj

\* Packets.readPacket(packet) of the frame on the wire
ReadPacket ==
  /\ pkOut' = [frame |-> pkFrame, name |-> readPacket(pkFrame).name,
               payload |-> readPacket(pkFrame).payload]
  /\ UNCHANGED <<pkIn, pkFrame>>
  /\ UNCHANGED notPk
  /\ UNCHANGED notObj

NextCodec ==
  \/ \E name \in SeqToSet(PacketNames), data \in JsonPayloads : WritePacket(name, data)
  \/ \E id \in UnknownIds, data \in JsonPayloads : ForeignFrame(id, data)
  \/ ReadPacket

(***************************************************************************)
(* One Chat object (Chat.js): the bounded buffer of the messages received. *)
(* A message is its place in the arrival order, the text it carries.       *)
(***************************************************************************)
DefaultMaxMessages == 100
\* the limits given to setMaxMessages, from below the valid ones upwards
Limits == (-1)..MaxLimit

\* a slice from the front: the first -start elements
sliceFromFront(s, start) ==
  SubSeq(s, 1, Min({-start, Len(s)}))

\* Array.prototype.slice(start) with a negative start: the last -start elements
slice(s, start) ==
  SubSeq(s, Len(s) - Min({-start, Len(s)}) + 1, Len(s))

NewChat == [messages |-> <<>>, maxMessages |-> DefaultMaxMessages]

\* addMessage(messageData): push, then keep the last maxMessages
addMessage(c, message) ==
  LET pushed == Append(c.messages, message)
  IN [c EXCEPT !.messages = IF Len(pushed) > c.maxMessages
                            THEN slice(pushed, -c.maxMessages)
                            ELSE pushed]

\* setMaxMessages(max) for a max it accepts: set the limit, then trim
setMaxMessages(c, max) ==
  [c EXCEPT !.maxMessages = max,
            !.messages = IF Len(c.messages) > max THEN slice(c.messages, -max)
                         ELSE c.messages]

ChatOp(kind, arg, threw) == [kind |-> kind, arg |-> arg, raised |-> threw]

InitChat ==
  /\ chat = NewChat
  /\ arrivals = 0
  /\ lastChatOp = ChatOp("constructor", 0, FALSE)

notChat == <<classified, conVars, entVars, plVars, pkVars, appVars>>

AddMessage ==
  /\ arrivals < MaxArrivals
  /\ arrivals' = arrivals + 1
  /\ chat' = addMessage(chat, arrivals + 1)
  /\ lastChatOp' = ChatOp("addMessage", arrivals + 1, FALSE)
  /\ UNCHANGED notChat
  /\ UNCHANGED notObj

SetMaxMessages(max) ==
  /\ IF max < 1
     THEN /\ lastChatOp' = ChatOp("setMaxMessages", max, TRUE)
          /\ UNCHANGED chat
     ELSE /\ lastChatOp' = ChatOp("setMaxMessages", max, FALSE)
          /\ chat' = setMaxMessages(chat, max)
  /\ UNCHANGED arrivals
  /\ UNCHANGED notChat
  /\ UNCHANGED notObj

ClearChat ==
  /\ chat' = [chat EXCEPT !.messages = <<>>]
  /\ lastChatOp' = ChatOp("clear", 0, FALSE)
  /\ UNCHANGED arrivals
  /\ UNCHANGED notChat
  /\ UNCHANGED notObj

NextChat ==
  \/ AddMessage
  \/ \E max \in Limits : SetMaxMessages(max)
  \/ ClearChat

(***************************************************************************)
(* One App object (App.js) and the blueprints the client has registered.   *)
(***************************************************************************)
AppBpIds == {"bp1", "bp2", "bp3"}
Uploaders == {"u1"}
NoBlueprint == [id |-> "null"]
BlueprintObject(id) == [id |-> id]

\* the data of a constructor or an update call: blueprint, mover and uploader
\* are "undefined" when the data does not carry them, pinned when hasPinned is
\* false
AppData ==
  {d \in [blueprint : AppBpIds \cup {"undefined"}, hasPinned : BOOLEAN, pinned : BOOLEAN,
          mover : Uploaders \cup {"undefined", "null"},
          uploader : Uploaders \cup {"undefined", "null"}] :
     ~d.hasPinned => ~d.pinned}
FirstAppData ==
  [blueprint |-> "bp1", hasPinned |-> FALSE, pinned |-> FALSE,
   mover |-> "undefined", uploader |-> "undefined"]

\* value || null
orNull(value) == IF value = "undefined" THEN "null" ELSE value

\* client.getBlueprint(id): the blueprint registered under the id, if any
clientGetBlueprint(registry, id) ==
  IF id \in DOMAIN registry THEN registry[id] ELSE NoBlueprint

\* new App(client, data)
NewApp(registry, data) ==
  [blueprintId |-> orNull(data.blueprint),
   blueprint |-> clientGetBlueprint(registry, data.blueprint),
   pinned |-> data.hasPinned /\ data.pinned,
   mover |-> orNull(data.mover),
   uploader |-> orNull(data.uploader),
   isUploading |-> orNull(data.uploader) # "null"]

\* getBlueprint(): the blueprint the app holds, or else the registered one
getBlueprint(a, registry) ==
  IF a.blueprint # NoBlueprint THEN a.blueprint
  ELSE clientGetBlueprint(registry, a.blueprintId)

\* updateBlueprint()
updateBlueprint(a, registry) ==
  [a EXCEPT !.blueprint = clientGetBlueprint(registry, a.blueprintId)]

\* Entity.update(data), for the field an App reads afterwards
superUpdate(a, data) ==
  IF data.blueprint # "undefined" THEN [a EXCEPT !.blueprintId = data.blueprint] ELSE a

\* App.update(data): Entity.update first, then the fields of the app, then the
\* blueprint reference when the id in the data is not the app's id by then
AppUpdate(a, registry, data) ==
  LET a1 == superUpdate(a, data)
      a2 == IF data.hasPinned THEN [a1 EXCEPT !.pinned = data.pinned] ELSE a1
      a3 == IF data.mover # "undefined" THEN [a2 EXCEPT !.mover = data.mover] ELSE a2
      a4 == IF data.uploader # "undefined"
            THEN [a3 EXCEPT !.uploader = data.uploader,
                            !.isUploading = data.uploader # "null"]
            ELSE a3
  IN IF data.blueprint # "undefined" /\ data.blueprint # a4.blueprintId
     THEN updateBlueprint([a4 EXCEPT !.blueprintId = data.blueprint], registry)
     ELSE a4

FirstBlueprints == [id \in {"bp1", "bp2"} |-> BlueprintObject(id)]

InitApp ==
  /\ clientBlueprints = FirstBlueprints
  /\ app = NewApp(FirstBlueprints, FirstAppData)
  /\ lastAppOp = [kind |-> "constructor", data |-> FirstAppData]

notApp == <<classified, conVars, entVars, plVars, pkVars, chatVars>>

\* the client builds the App of an entity record it is given
ConstructApp(data) ==
  /\ app' = NewApp(clientBlueprints, data)
  /\ lastAppOp' = [kind |-> "constructor", data |-> data]
  /\ UNCHANGED clientBlueprints
  /\ UNCHANGED notApp
  /\ UNCHANGED notObj

UpdateApp(data) ==
  /\ app' = AppUpdate(app, clientBlueprints, data)
  /\ lastAppOp' = [kind |-> "update", data |-> data]
  /\ UNCHANGED clientBlueprints
  /\ UNCHANGED notApp
  /\ UNCHANGED notObj

\* the client registers a blueprint it did not have
BlueprintRegistered(id) ==
  /\ id \notin DOMAIN clientBlueprints
  /\ clientBlueprints' = [i \in DOMAIN clientBlueprints \cup {id} |->
                            IF i = id THEN BlueprintObject(id) ELSE clientBlueprints[i]]
  /\ UNCHANGED <<app, lastAppOp>>
  /\ UNCHANGED notApp
  /\ UNCHANGED notObj

NextApp ==
  \/ \E data \in AppData : ConstructApp(data)
  \/ \E data \in AppData : UpdateApp(data)
  \/ \E id \in AppBpIds : BlueprintRegistered(id)

InitSdk == InitPacket /\ InitChat /\ InitApp

(***************************************************************************)
(* The specifications                                                      *)
(***************************************************************************)
Init == InitWS /\ socketLimit = MaxSockets /\ InitEM /\ InitBP /\ InitStore /\ InitMsg /\ InitObj /\ InitSdk /\ InitEntity /\ InitPlayer /\ hasMonitor = TRUE

Next == NextWS

\* the WebSocketManager
Spec == Init /\ [][Next]_vars

\* the WebSocketManager during an outage in which nothing is sent, with one more
\* socket to create
InitOutage ==
  /\ InitWS /\ socketLimit = MaxSockets + 1
  /\ InitEM /\ InitBP /\ InitStore /\ InitMsg /\ InitObj /\ InitSdk /\ InitEntity /\ InitPlayer
  /\ hasMonitor = TRUE

NextOutage ==
  \/ Connect
  \/ Disconnect
  \/ \E i \in Sockets : SocketOpen(i)
  \/ \E i \in Sockets : SocketFail(i)
  \/ \E i \in Sockets : SocketClose(i)
  \/ \E k \in 1..(2 * (MaxSockets + 1)) : TimerFire(k)

SpecOutage == InitOutage /\ [][NextOutage]_vars

\* the WebSocketManager, the loop of processQueue running on once it has started
SpecFlush == Init /\ [][Next]_vars /\ WF_vars(FlushStep) /\ WF_vars(FlushDone)

\* the codec, the chat and the app on their own
SpecCodec == Init /\ [][NextCodec]_vars
SpecChat == Init /\ [][NextChat]_vars
SpecApp == Init /\ [][NextApp]_vars

\* the ErrorMonitor, on the server or on the client
InitAnySide ==
  InitWS /\ socketLimit = MaxSockets /\ InitBP /\ InitStore /\ InitMsg /\ InitObj /\ InitSdk /\ InitEntity /\ InitPlayer /\ hasMonitor = TRUE
  /\ errors = <<>> /\ errorId = 0 /\ now = 0 /\ isClient \in BOOLEAN
  /\ lastCleared = 0 /\ lastCalled = "none" /\ lastOut = NoOut /\ streak = 0 /\ streakFirst = 0

SpecEM == InitAnySide /\ [][NextEM]_vars

\* the Blueprints registry, in a world with an error monitor or without one
InitAnyWorld ==
  InitWS /\ socketLimit = MaxSockets /\ InitEM /\ InitBP /\ InitStore /\ InitMsg /\ InitObj /\ InitSdk /\ InitEntity /\ InitPlayer /\ hasMonitor \in BOOLEAN

SpecBP == InitAnyWorld /\ [][NextBP]_vars

\* the client's entity store
SpecStore == Init /\ [][NextStore]_vars

\* the WebSocketManager's inbound frames
SpecMsg == Init /\ [][NextMsg]_vars

\* an Entity object, constructed from any record
InitAnyEntity ==
  /\ InitWS /\ socketLimit = MaxSockets /\ InitEM /\ InitBP /\ InitStore /\ InitMsg /\ hasMonitor = TRUE
  /\ InitObj /\ InitSdk /\ InitPlayer
  /\ \E data \in EntityData : ent = NewEntity(data) /\ lastOp = [kind |-> "new", data |-> data]

SpecEntity == InitAnyEntity /\ [][NextEntity]_vars

\* a Player object, constructed from any record
InitAnyPlayer ==
  /\ InitWS /\ socketLimit = MaxSockets /\ InitEM /\ InitBP /\ InitStore /\ InitMsg /\ hasMonitor = TRUE
  /\ InitObj /\ InitSdk /\ InitEntity
  /\ \E data \in PlayerData :
       player = NewPlayer(data) /\ lastPlayerOp = [kind |-> "new", data |-> data]

SpecPlayer == InitAnyPlayer /\ [][NextPlayer]_vars

\* the console interception of the ErrorMonitor
SpecConsole == Init /\ [][NextConsole]_vars

\* the severity classification
SpecClassify == Init /\ [][NextClassify]_vars

(***************************************************************************)
(* Claims about the WebSocketManager                                       *)
(***************************************************************************)
\* isConnected()
isConnected == CanSend(connected, ws, sock)

\* C1: queued messages reach the socket in the order they were submitted (ids are
\* given in submission order): the transmitted ids increase, no transmitted message
\* was submitted after one that is still queued, no message is both queued and
\* transmitted or dropped, and once an open handler has finished with the current
\* socket OPEN the queue is empty, so a later send() cannot overtake a queued one.
C1_QueuedSendsKeepSubmissionOrder ==
  /\ \A a, b \in 1..Len(wire) : a < b => wire[a] < wire[b]
  /\ \A a \in 1..Len(wire) : \A b \in 1..Len(queue) : wire[a] < queue[b]
  /\ SeqToSet(queue) \cap (SeqToSet(wire) \cup dropped) = {}
  /\ SeqToSet(queue) \cup SeqToSet(wire) \cup dropped = 1..nextMsg
  /\ (pc = "idle" /\ isConnected) => queue = <<>>

\* the open handler of a socket created after a first one (a reconnect) is half way
\* through a queue of two: message 1 is on the wire, message 2 is next
C1_Witness ==
  /\ pc = "flush"
  /\ isConnected
  /\ ws >= 2
  /\ wire = <<1>>
  /\ queue = <<2>>

\* C2: after disconnect(), until the caller calls connect() again, no reconnect
\* timer is pending and the manager holds no socket.
C2_NoReconnectAfterDisconnect ==
  userDisconnected => (timers = <<>> /\ ws = 0)

\* C3: once the terminal event has been emitted no reconnect is scheduled and it
\* is not emitted again during the outage, and it has been emitted once
\* maxReconnectAttempts reconnect attempts have failed.
C3_TerminalEventExactlyOnce ==
  /\ maxReached <= 1
  /\ maxReached >= 1 => timers = <<>>
  /\ failedReconnects >= maxReconnectAttempts => maxReached >= 1

\* C4: at most one reconnect timer is pending.
C4_AtMostOneReconnectTimer == Len(timers) <= 1

\* C5: the n-th reconnect scheduled since the last open (n = 0, 1, ...) has delay
\* reconnectDelay * 2^n.
C5_NthDelayIsBaseTimesTwoToTheN ==
  \A n \in 1..Len(schedLog) : schedLog[n] = reconnectDelay * Pow2(n - 1)

\* C13: a send() while the current socket is OPEN hands the message to the socket
\* at once (or drops it, the transmit raising) and leaves the queue as it was; in
\* every other state it transmits nothing and puts the message at the queue's tail.
C13_SendTransmitsIffOpen ==
  [][nextMsg' = nextMsg + 1 =>
       IF ws # 0 /\ sock[ws] = "OPEN"
       THEN /\ queue' = queue
            /\ \/ wire' = Append(wire, nextMsg + 1) /\ dropped' = dropped
               \/ wire' = wire /\ dropped' = dropped \cup {nextMsg + 1}
       ELSE /\ wire' = wire
            /\ dropped' = dropped
            /\ queue' = Append(queue, nextMsg + 1)]_vars

\* C15: a message whose transmit raised is dropped: send() emitted one 'error' for
\* it and did not return true, and the message is not in the queue and never
\* reaches the socket later, for a direct send and for one replayed from the queue.
C15_FailedTransmitIsDropped ==
  /\ sendErrors = Cardinality(dropped)
  /\ sendTrue = Len(wire)
  /\ dropped \cap (SeqToSet(queue) \cup SeqToSet(wire)) = {}

\* the transmit of message 1 raised while the open handler replayed the queue,
\* and message 2 is still to be replayed
C15_Witness ==
  /\ pc = "flush"
  /\ isConnected
  /\ dropped = {1}
  /\ queue = <<2>>
  /\ sendErrors = 1

\* C16: a connect() call while this.ws is OPEN creates no socket, leaves every
\* field of the manager as it was and starts no wait.
C16_ConnectWhileOpenIsNoOp ==
  [][(noopConnect' /\ ~noopConnect) =>
       UNCHANGED <<ws, connected, reconnectAttempts, heartbeatTimer, queue,
                   processingQueue, sock, promise, timers, pc, opening, wire, dropped>>]_vars

\* connect() was called on an open connection that carries a heartbeat
C16_Witness ==
  /\ noopConnect
  /\ isConnected
  /\ heartbeatTimer
  /\ wire # <<>>

\* C17: the heartbeat interval runs only while the current socket is OPEN.
C17_HeartbeatOnlyWhileOpen ==
  heartbeatTimer => (ws # 0 /\ sock[ws] = "OPEN")

\* C14: handleMessage never raises and leaves the manager's state alone; a frame
\* with no name emits nothing, a frame whose decoding or handling raises ends in
\* exactly one 'error' event, a good frame emits 'packet' and its named event, and
\* the events of a frame follow those of the frames before it.
C14_HandleMessageNeverRaises ==
  [][received' # received =>
       LET f == received'[Len(received')]
           new == SubSeq(emitted', Len(emitted) + 1, Len(emitted'))
           bad == f.decodeThrows \/ f.listenerThrows # "none"
       IN /\ ~raised'
          /\ SubSeq(emitted', 1, Len(emitted)) = emitted
          /\ UNCHANGED wsVars
          /\ (f.name = "null" /\ ~f.decodeThrows) => new = <<>>
          /\ bad => /\ new # <<>>
                    /\ new[Len(new)] = "error"
                    /\ Cardinality({k \in 1..Len(new) : new[k] = "error"}) = 1
          /\ (f.name # "null" /\ ~bad) => new = <<"packet", f.name>>]_vars

\* a good frame was handled after a frame whose decoding raised and one whose
\* listener raised
C14_Witness ==
  /\ Len(received) = 3
  /\ received[1].decodeThrows
  /\ received[2].listenerThrows = "named"
  /\ received[3].name # "null" /\ received[3].listenerThrows = "none"
  /\ emitted[Len(emitted)] = received[3].name

\* C34: reconnectAttempts never exceeds maxReconnectAttempts: no reconnect timer
\* calls connect() once it has reached maxReconnectAttempts.
C34_ReconnectAttemptsBounded == reconnectAttempts <= maxReconnectAttempts

\* C35: the loop of processQueue, once an open handler has started it, ends.
C35_ProcessQueueTerminates == (pc = "flush") ~> (pc = "idle")

\* C36: at most one of the sockets the manager created is CONNECTING or OPEN.
C36_AtMostOneLiveSocket ==
  Cardinality({i \in DOMAIN sock : sock[i] \in {"CONNECTING", "OPEN"}}) <= 1

(***************************************************************************)
(* Claims about the ErrorMonitor                                           *)
(***************************************************************************)
\* C6: a captureError call that finds the buffer full removes the record with the
\* lowest id and keeps the new one, whatever calls came before it.
C6_OverflowEvictsLowestId ==
  [][(errorId' = errorId + 1 /\ Len(errors) = maxErrors)
       => Ids(errors') = (Ids(errors) \ {Min(Ids(errors))}) \cup {errorId + 1}]_vars

\* C7: the buffer never holds more than maxErrors records, and after maxErrors + 1
\* captureError calls in a row that started on an empty buffer it holds exactly
\* maxErrors records, the first call's record not among them.
C7_BufferNeverExceedsMaxErrors ==
  /\ Len(errors) <= maxErrors
  /\ streak = maxErrors + 1 => (Len(errors) = maxErrors /\ streakFirst \notin Ids(errors))

\* maxErrors + 1 captures in a row on an empty buffer have just been made
C7_Witness == streak = maxErrors + 1 /\ errorId = streakFirst + maxErrors

\* C18: every captureError call gives its record an id one above the id of the
\* call before it, greater than every id in the buffer; the only step that resets
\* the counter is clearErrors, which empties the buffer and returns the number of
\* records it removed, so that the next record captured has id 1.
C18_IdsIncreaseUntilCleared ==
  [][errorId' # errorId
       => \/ /\ errorId' = errorId + 1
             /\ errors' # <<>>
             /\ errors'[Len(errors')].id = errorId'
             /\ lastOut'.id = errorId'
             /\ \A i \in Ids(errors) : i < errorId'
             /\ lastCleared' = lastCleared
          \/ /\ errorId' = 0
             /\ errors' = <<>>
             /\ lastCleared' = Len(errors)]_vars

\* clearErrors removed a full buffer and the first record captured since has id 1
C18_Witness ==
  /\ lastCleared = maxErrors
  /\ errorId = 1
  /\ Len(errors) = 1
  /\ errors[1].id = 1
  /\ lastOut.id = 1

\* C19: getErrors returns only records of the buffer that satisfy every filter
\* given, at most `limit` of them, the more recently captured before the less
\* recently captured also when both have the same timestamp, and leaves out no
\* matching record captured after one it returns.
C19_GetErrorsMostRecentFirst ==
  \A o \in Options :
    LET r == getErrors(o)
        matches(e) ==
          /\ o.type # "null" => e.type = o.type
          /\ o.since > 0 => e.ts >= o.since
          /\ o.side # "null" => Side = o.side
          /\ o.critical = "true" => isCriticalError(e.type, e.msg)
    IN /\ \A k \in 1..Len(r) : r[k] \in SeqToSet(errors) /\ matches(r[k])
       /\ Len(r) <= o.limit
       /\ \A i, j \in 1..Len(r) : i < j => r[i].id > r[j].id
       /\ \A e \in SeqToSet(errors) :
            (matches(e) /\ e \notin SeqToSet(r)) => \A k \in 1..Len(r) : r[k].id > e.id

\* C20: in every captureError call each listener receives an 'error' event with
\* the new record, which is in the buffer by then; when what the call reports is
\* critical each listener then receives a 'critical' event and, on the client,
\* exactly one 'errorReport' flagged critical is sent; otherwise there is no
\* 'critical' event and no 'errorReport'.
C20_ListenersAndCriticalReport ==
  [][errorId' = errorId + 1
       => LET o == lastOut'
              critical == isCriticalError(o.type, o.text)
          IN /\ o.id \in Ids(errors')
             /\ o.events = IF critical
                            THEN NotifyListeners("error", o.id)
                                   \o NotifyListeners("critical", o.id)
                            ELSE NotifyListeners("error", o.id)
             /\ o.reports = IF critical /\ isClient THEN 1 ELSE 0]_vars

\* C21: isCriticalError answers true exactly when the type or the message of the
\* record matches one of the severity patterns.
C21_CriticalIffTypeOrMessageMatches ==
  \A k \in 1..Len(classified) :
    classified[k].critical
      = (criticalPatterns(classified[k].type) \/ criticalPatterns(classified[k].text))

\* C23: a console.log call is captured, as a record of type 'console.log', exactly
\* when init() has set debugMode; console.error and console.warn calls are always
\* captured, as records of their own type.
C23_DebugModeCapturesConsoleLog ==
  [][consoleCalls' = consoleCalls + 1
       => LET c == lastConsole'
          IN /\ c.captured = (c.method \in {"error", "warn"} \/ debugMode)
             /\ c.captured => /\ errorId' = errorId + 1
                               /\ errors'[Len(errors')].id = errorId'
                               /\ errors'[Len(errors')].type = ConsoleType(c.method)
             /\ ~c.captured => UNCHANGED <<errors, errorId>>]_vars

\* C33: cleanup() removes the records that are more than 24 hours old and no
\* other, keeps the others in their order with their ids, and leaves the id
\* counter alone.
C33_CleanupRemovesOnlyOldRecords ==
  [][(lastCalled' = "cleanup" /\ now' = now)
       => /\ errors' = SelectSeq(errors, LAMBDA e : ~(now - e.ts > DayHours))
          /\ \A e \in SeqToSet(errors) :
               e \in SeqToSet(errors') <=> now - e.ts <= DayHours
          /\ errorId' = errorId]_vars

\* cleanup() has removed record 1, which was 48 hours old, and kept record 2, which
\* is exactly 24 hours old
C33_Witness ==
  /\ lastCalled = "cleanup"
  /\ errorId = 2
  /\ Ids(errors) = {2}
  /\ now - errors[1].ts = DayHours

\* C37: getErrors(options) leaves the buffer and the id counter as they were,
\* whatever the options, and the records of the buffer are in ascending order of
\* their ids.
C37_GetErrorsIsReadOnly ==
  /\ [](\A i, j \in 1..Len(errors) : i < j => errors[i].id < errors[j].id)
  /\ [][lastCalled' = "getErrors" => (errors' = errors /\ errorId' = errorId)]_vars

\* C38: every captureError call, whether its args are a list or one object,
\* appends its record, notifies every listener and returns without raising.
C38_CaptureErrorNeverRaises ==
  [][errorId' = errorId + 1
       => /\ ~lastOut'.raised
          /\ lastOut'.id \in Ids(errors')
          /\ \A k \in 1..Len(Listeners) :
               \E n \in 1..Len(lastOut'.events) : lastOut'.events[n].to = Listeners[k]]_vars

(***************************************************************************)
(* Claims about Blueprints                                                 *)
(***************************************************************************)
\* C8: with an error monitor, the result of executeWithErrorMonitoring has
\* success = false and a non-empty errors list exactly when a record was captured
\* between the start of the operation and the end of the wait.
C8_FailureIffCapturedInWindow ==
  lastSent.monitored =>
    /\ lastSent.success <=> lastSent.captured = 0
    /\ lastSent.success <=> lastSent.errors = <<>>

\* C9: a modify whose merged candidate equals the stored blueprint changes nothing:
\* no registry write, no entity cleared or rebuilt, nothing sent, no event, no
\* wait started.
C9_EqualModifyIsNoOp ==
  [][(calls' = calls + 1 /\ lastCall'.kind = "modify" /\ lastCall'.same)
       => /\ lastCall'.outcome = "skipped"
          /\ UNCHANGED <<items, entities, netSent, lastSent, modifyEvents, inflight,
                         errors, errorId>>]_vars

\* a modify equal to the stored value was the last call, and an entity of that
\* blueprint still has its state
C9_Witness ==
  /\ lastCall.kind = "modify"
  /\ lastCall.same
  /\ \E e \in Entities : entities[e].blueprint = lastCall.id /\ entities[e].state = "set"

\* C10: every modify that changes the stored blueprint stores a greater version.
C10_ModifyRaisesVersion ==
  [][(calls' = calls + 1 /\ lastCall'.kind = "modify" /\ lastCall'.id \in DOMAIN items
        /\ items'[lastCall'.id] # items[lastCall'.id])
       => items'[lastCall'.id].version > items[lastCall'.id].version]_vars

\* C22: the errors a monitored operation reports are records whose type is in the
\* allow-list explicitBlueprintErrors or whose message names the operation's
\* blueprint id (the code has no switch that would turn a loose attribution on).
C22_OnlyAttributableRecords ==
  [][(netSent' = netSent + 1 /\ lastSent'.monitored)
       => \A k \in 1..Len(lastSent'.errors) :
            \A e \in SeqToSet(errors) :
              e.id = lastSent'.errors[k]
                => (e.type \in explicitBlueprintErrors \/ e.msg = lastSent'.id)]_vars

\* C24: a modify that changes blueprint b clears and rebuilds once every entity
\* of b and leaves the other entities as they were; the rebuilds see the new value
\* in the registry; in a world with an error monitor the 'blueprintModified'
\* message and the 'modify' event are not sent by the call but when its window
\* ends.
C24_ModifyRebuildsEntitiesOfBlueprint ==
  [][(calls' = calls + 1 /\ lastCall'.kind = "modify" /\ lastCall'.outcome = "written")
       => LET b == lastCall'.id
          IN /\ items'[b] # items[b]
             /\ \A e \in Entities :
                  IF entities[e].blueprint = b
                  THEN /\ entities'[e].state = "empty"
                       /\ entities'[e].builds = entities[e].builds + 1
                       /\ entities'[e].saw = items'[b]
                       /\ entities'[e].blueprint = b
                  ELSE entities'[e] = entities[e]
             /\ hasMonitor => /\ netSent' = netSent
                              /\ modifyEvents' = modifyEvents
                              /\ inflight' # <<>>
                              /\ inflight'[Len(inflight')].kind = "modify"
                              /\ inflight'[Len(inflight')].id = b]_vars

\* the window of a modify of bp1 is open: both entities of bp1 were rebuilt once
\* with the new name in the registry, the entity of bp2 was not, nothing was sent
C24_Witness ==
  /\ hasMonitor
  /\ lastCall.kind = "modify" /\ lastCall.outcome = "written" /\ lastCall.id = "bp1"
  /\ Len(inflight) = 1 /\ inflight[1].kind = "modify"
  /\ netSent = 0 /\ modifyEvents = 0
  /\ entities["e1"].builds = 1 /\ entities["e2"].builds = 1 /\ entities["e3"].builds = 0
  /\ entities["e1"].saw.name = "b" /\ entities["e1"].state = "empty"
  /\ entities["e3"].state = "set"

\* C40: a modify for an id that is not in the registry changes no registry entry,
\* rebuilds no entity, sends no message, emits no 'modify' event, opens no window
\* and does not raise.
C40_ModifyOfMissingIdIsDropped ==
  [][(calls' = calls + 1 /\ lastCall'.kind = "modify" /\ lastCall'.id \notin DOMAIN items)
       => /\ UNCHANGED <<items, entities, netSent, lastSent, modifyEvents, inflight>>
          /\ lastCall'.outcome # "rejected"]_vars

C26_TransformArraysKeepTheirLength ==
  Len(ent.position) = 3 /\ Len(ent.quaternion) = 4 /\ Len(ent.scale) = 3

(***************************************************************************)
(* Claims about a Player object                                            *)
(***************************************************************************)
\* C29: a player constructed from a record reports the health and the rank the
\* record carries, whatever their values, and 100 and 0 when the record carries
\* none; update sets health and rank to the values the patch carries.
C29_PlayerReportsHealthAndRank ==
  /\ [](lastPlayerOp.kind = "new"
          => LET d == lastPlayerOp.data
             IN /\ getHealth(player) = IF "health" \in d.keys THEN d.health ELSE 100
                /\ getRank(player) = IF "rank" \in d.keys THEN d.rank ELSE 0)
  /\ [][lastPlayerOp'.kind = "update"
          => LET d == lastPlayerOp'.data
             IN /\ getHealth(player') = IF "health" \in d.keys THEN d.health
                                         ELSE getHealth(player)
                /\ getRank(player') = IF "rank" \in d.keys THEN d.rank
                                       ELSE getRank(player)]_vars

\* C30: isVisitor() holds iff the rank is 0, isBuilder() iff it is at least 1,
\* isAdmin() iff it is at least 2; hasPermission answers isAdmin() for 'admin',
\* isBuilder() for 'build', true for 'chat' and false for any other name; the
\* rank names of 0, 1, 2 are 'Visitor', 'Builder', 'Admin'.
C30_RankPredicatesAndPermissions ==
  LET r == getRank(player)
  IN /\ isVisitor(player) = (r = 0)
     /\ isBuilder(player) = (r >= 1)
     /\ isAdmin(player) = (r >= 2)
     /\ isAdmin(player) => isBuilder(player)
     /\ hasPermission(player, "admin") = isAdmin(player)
     /\ hasPermission(player, "build") = isBuilder(player)
     /\ hasPermission(player, "chat")
     /\ \A permission \in Permissions \ {"admin", "build", "chat"} :
          ~hasPermission(player, permission)
     /\ r = 0 => getRankName(player) = "Visitor"
     /\ r = 1 => getRankName(player) = "Builder"
     /\ r = 2 => getRankName(player) = "Admin"

\* an update made the player an admin
C30_Witness ==
  /\ lastPlayerOp.kind = "update"
  /\ "rank" \in lastPlayerOp.data.keys
  /\ getRank(player) = 2
  /\ isAdmin(player) /\ isBuilder(player) /\ ~isVisitor(player)

(***************************************************************************)
(* Claims about the client's entity store                                  *)
(***************************************************************************)
\* C11: an id that was removed is not in the entity map until an entityAdded or a
\* snapshot carrying it is applied; an entityModified does not bring it back.
C11_RemovedIdStaysAbsent == removed \cap DOMAIN clientEntities = {}

\* an entityModified for a removed id has just been applied while another entity
\* is in the map
C11_Witness ==
  /\ lastEvent.kind = "entityModified"
  /\ lastEvent.id \in removed
  /\ lastEvent.data.name # "none"
  /\ DOMAIN clientEntities # {}

\* C12: whichever path built it, the object stored for a record has the class of
\* the record's tag: Player for 'player', App for 'app', Entity for any other tag,
\* for every entity of a snapshot and for an entity that was added.
C12_SamePathSameSubtype ==
  lastEvent.kind \in {"snapshot", "entityAdded"} =>
    \A e \in lastEvent.ids :
      LET rec == IF lastEvent.kind = "snapshot" THEN SnapshotRecord(lastEvent.data, e)
                 ELSE lastEvent.data
      IN /\ e \in DOMAIN clientEntities
         /\ clientEntities[e] = AddedBuild(rec)
         /\ clientEntities[e].class =
              (IF rec.type = "player" THEN "Player"
               ELSE IF rec.type = "app" THEN "App" ELSE "Entity")

\* a snapshot with two players, one of them not the local player, was applied
C12_Witness ==
  /\ lastEvent.kind = "snapshot"
  /\ lastEvent.ids = EntityIds
  /\ \A e \in EntityIds : clientEntities[e].class = "Player"


\* C27: entityModified for an id that is not in the map leaves the map as it was:
\* the same ids with the same objects, and no entity created.
C27_ModifyOfAbsentIdChangesNothing ==
  [][(lastEvent'.kind = "entityModified" /\ lastEvent'.id \notin DOMAIN clientEntities)
       => /\ clientEntities' = clientEntities
          /\ lastEvent'.id \notin DOMAIN clientEntities']_vars

\* a patch carrying a name arrived for an id that was never added while the other
\* entity is in the map
C27_Witness ==
  /\ lastEvent.kind = "entityModified"
  /\ lastEvent.data.name # "none"
  /\ lastEvent.id \notin removed
  /\ DOMAIN clientEntities = EntityIds \ {lastEvent.id}

\* C28: entityRemoved leaves the id absent and every other entity as it was, and
\* changes nothing when the id is absent, so that applying it a second time gives
\* the map the first application gave.
C28_RemoveIsIdempotent ==
  [][lastEvent'.kind = "entityRemoved"
       => LET id == lastEvent'.id
          IN /\ DOMAIN clientEntities' = DOMAIN clientEntities \ {id}
             /\ \A e \in DOMAIN clientEntities' : clientEntities'[e] = clientEntities[e]
             /\ id \notin DOMAIN clientEntities => clientEntities' = clientEntities
             /\ Removed(clientEntities', id) = clientEntities']_vars

\* id1 was removed while id2 stays in the map
C28_Witness ==
  /\ lastEvent.kind = "entityRemoved"
  /\ lastEvent.id = "id1"
  /\ DOMAIN clientEntities = {"id2"}
  /\ removed = {"id1"}

C32_ChatKeepsTheMostRecentMessages ==
  /\ [](/\ Len(chat.messages) <= chat.maxMessages
        /\ \A i \in 1..Len(chat.messages) :
             chat.messages[i] = arrivals - Len(chat.messages) + i)
  /\ [][(lastChatOp' # lastChatOp /\ lastChatOp'.kind = "setMaxMessages")
          => IF lastChatOp'.arg < 1
             THEN lastChatOp'.raised /\ chat' = chat
             ELSE ~lastChatOp'.raised /\ chat'.maxMessages = lastChatOp'.arg]_vars

\* four messages arrived under a limit of two, the last two are held, and a
\* limit of zero has then been refused
C32_Witness ==
  /\ arrivals = MaxArrivals
  /\ chat.maxMessages = 2
  /\ chat.messages = <<MaxArrivals - 1, MaxArrivals>>
  /\ lastChatOp = ChatOp("setMaxMessages", 0, TRUE)

\* C39: after update(data) with data.blueprint an id other than the app's, the
\* app's blueprintId is the new id and getBlueprint() is the blueprint the
\* client has registered under the new id.
C39_UpdateSwitchesTheBlueprint ==
  [][(/\ lastAppOp' # lastAppOp
      /\ lastAppOp'.kind = "update"
      /\ lastAppOp'.data.blueprint \in DOMAIN clientBlueprints
      /\ lastAppOp'.data.blueprint # app.blueprintId)
       => /\ app'.blueprintId = lastAppOp'.data.blueprint
          /\ getBlueprint(app', clientBlueprints')
               = clientBlueprints'[lastAppOp'.data.blueprint]]_vars

====
